---- MODULE Spec2Model ----
(***************************************************************************)
(* A model of the authentication and session subsystem of the Twitter      *)
(* clone backend: the D1 store (users, sessions), the lazily initialised   *)
(* schema, the clock, and the HTTP handlers register, login, logout and    *)
(* /api/auth/me with the helper getUserFromSession, and the tweet, like,   *)
(* comment and profile handlers that call it.  Every request is a          *)
(* process; each awaited D1 statement is one atomic step, so requests      *)
(* interleave exactly at the awaits of the handlers.                       *)
(***************************************************************************)
EXTENDS Integers, Sequences, FiniteSets, TLC

\* ---------------------------------------------------------------- bounds
\* Number of session tokens crypto.randomUUID can hand out.
MaxTokens == 2
\* Number of times the clock may advance.
MaxTicks == 1
\* Number of tweets, likes and comments the clients post.
MaxRows == 2

\* ------------------------------------------------------ program constants
ITERATIONS == 100000
KEY_LEN == 32
SALT_LEN == 16
\* Math.floor(Date.now() / 1000)
MsPerSec == 1000
\* expiresAtDate.setDate(expiresAtDate.getDate() + 30)
SessionDays == 30
\* One calendar day of a Date in UTC, in seconds.
SecPerDay == 24 * 60 * 60
SessionSeconds == SessionDays * SecPerDay

\* --------------------------------------------------------------- inputs
\* The request slots: two requests may be in flight at once.
Procs == {1, 2}
Tokens == 1..MaxTokens
\* getCookie(c, 'session') when the request carries no such cookie.
Undefined == "undefined"
EmptyString == ""
\* A cookie value that no randomUUID call ever returned.
BogusToken == "nonexistent-token"
\* The login forms the clients send: (email, password).
LoginForms ==
    { [email |-> "a@x.io", password |-> "secret1"],
      [email |-> "a@x.io", password |-> "secret2"] }
\* The register forms the clients send: (email, username, password).
RegisterForms ==
    { [email |-> "a@x.io", username |-> "alice", password |-> "secret1"],
      [email |-> "b@x.io", username |-> "bob", password |-> "secret2"],
      [email |-> "a@x.io", username |-> "bob", password |-> "secret2"] }
\* The bytes crypto.getRandomValues draws for the salt of a registration.
Salts == { [i \in 1..SALT_LEN |-> (i * 37) % 256] }
\* An optional field of a form is <<>> when undefined and <<v>> when v.
\* The tweet forms: (text, images).
TweetForms ==
    { [text |-> "hi", images |-> <<>>],
      [text |-> "hi", images |-> << <<>> >>],
      [text |-> "hi", images |-> << <<"a", "b", "c", "d", "e">> >>] }
\* "Limit images to 4"
MaxImages == 4
\* The :id and :username parameters of the routes.
TweetParams == {"1"}
UsernameParams == {"alice", "carol"}
CommentTexts == {"ok"}
\* The profile forms: (username, description, profilePhoto).
UpdateForms ==
    { [username |-> <<>>, description |-> <<>>, profilePhoto |-> <<>>],
      [username |-> <<"bob">>, description |-> <<"hi">>, profilePhoto |-> <<"p.png">>] }
\* A time in milliseconds is kept as whole seconds and the milliseconds past
\* them, so that 30 days of milliseconds stay within 32-bit integers.
Ms(sec, ms) == [sec |-> sec, ms |-> ms]
\* How far the clock moves in one advance: the lifetime of a session; for the
\* specification of the clock also one second less, and up to the last
\* millisecond of a second.
DaySteps == {Ms(SessionSeconds, 0)}
ClockSteps == {Ms(0, MsPerSec - 1), Ms(SessionSeconds - 1, 0), Ms(SessionSeconds, 0)}
\* The time that may pass between two clock reads of one synchronous block:
\* none where the runtime moves the clock only with I/O, or some.
NoDrift == {Ms(0, 0)}
SyncDrift == {Ms(0, 0), Ms(0, 1)}
\* The tables ensureSchema creates, in its order.
TableNames == <<"users", "sessions", "tweets", "photos", "likes", "comments">>

VARIABLES
    tables,             \* D1: the names of the tables that exist
    users,              \* D1: rows of users
    sessions,           \* D1: rows of sessions
    seq,                \* D1: the AUTOINCREMENT counters of users and sessions
    tablesInitialized,  \* the worker's module-level flag
    clock,              \* Date.now(), in milliseconds
    ticks,              \* how often the clock has advanced
    content,            \* D1: rows of tweets, photos, likes and comments
    req,                \* the requests in flight, one per slot
    issued,             \* history: every session row ever inserted
    revoked,            \* history: issued tokens whose logout DELETE has run
    call                \* the password module called on its own: inputs, results

vars == <<tables, users, sessions, seq, tablesInitialized, clock, ticks, content,
          req, issued, revoked, call>>
db == <<tables, users, sessions, seq>>
hist == <<issued, revoked>>

\* ------------------------------------------------------- pure functions
\* Token i as the string a cookie carries.
TokenString(i) == "tok" \o ToString(i)

TokenStrings == { TokenString(i) : i \in Tokens }

\* t + d, in milliseconds.
AddMs(t, d) ==
    Ms(t.sec + d.sec + (t.ms + d.ms) \div MsPerSec, (t.ms + d.ms) % MsPerSec)

\* Math.floor(t / 1000)
Seconds(t) == t.sec

\* date.setDate(date.getDate() + days) of a Date in UTC.
AddDays(t, days) == Ms(t.sec + days * SecPerDay, t.ms)

\* array.slice(from, to)
Slice(array, from, to) ==
    SubSeq(array, from + 1, IF to < Len(array) THEN to ELSE Len(array))

\* !token of JavaScript: undefined and "" are falsy.
Falsy(token) == token = Undefined \/ token = EmptyString

\* The rows of a set in the order of their ids (the order D1 returns them).
RECURSIVE RowsInOrder(_)
RowsInOrder(S) ==
    IF S = {} THEN <<>>
    ELSE LET first == CHOOSE r \in S : \A q \in S : r.id <= q.id
         IN <<first>> \o RowsInOrder(S \ {first})

\* ------------------------------------------------------- password hashing
\* The characters a credential or a password is written with, in the order
\* of their codes: '0' is 48, ':' is 58, 'A' is 65 and 'a' is 97.
DigitChars == "0123456789:"
UpperChars == "ABCDEFGHIJKLMNOPQRSTUVWXYZ"
LowerChars == "abcdefghijklmnopqrstuvwxyz"

\* The position of character c in string, 0 when it does not occur.
IndexOf(string, c) ==
    IF \E n \in 1..Len(string) : SubSeq(string, n, n) = c
    THEN CHOOSE n \in 1..Len(string) : SubSeq(string, n, n) = c
    ELSE 0

\* The characters of a string, as a set of strings of length 1.
CharsOf(string) == { SubSeq(string, n, n) : n \in 1..Len(string) }

\* The code of each character.
CharCode ==
    [c \in CharsOf(DigitChars) \cup CharsOf(UpperChars) \cup CharsOf(LowerChars) |->
        IF IndexOf(DigitChars, c) > 0 THEN 47 + IndexOf(DigitChars, c)
        ELSE IF IndexOf(UpperChars, c) > 0 THEN 64 + IndexOf(UpperChars, c)
        ELSE 96 + IndexOf(LowerChars, c)]

\* string.charCodeAt(i), i counted from 0.
charCodeAt(string, i) == CharCode[SubSeq(string, i + 1, i + 1)]

\* a ^ b and a | b of non-negative integers.
RECURSIVE BitXor(_, _)
BitXor(a, b) ==
    IF a = 0 THEN b
    ELSE IF b = 0 THEN a
    ELSE 2 * BitXor(a \div 2, b \div 2) + ((a + b) % 2)

RECURSIVE BitOr(_, _)
BitOr(a, b) ==
    IF a = 0 THEN b
    ELSE IF b = 0 THEN a
    ELSE 2 * BitOr(a \div 2, b \div 2) + (IF a % 2 = 1 \/ b % 2 = 1 THEN 1 ELSE 0)

\* The outcome of a call: the value returned, or the error raised.
Return(value) == [threw |-> FALSE, value |-> value]
Raise(error) == [threw |-> TRUE, value |-> error]

\* Not-a-Number.
NaN == -1

HexDigits == "0123456789abcdef"
UpperHexDigits == "0123456789ABCDEF"

\* The value of one character as a digit of base 16, NaN when it is none.
HexValues ==
    [c \in DOMAIN CharCode |->
        IF IndexOf(HexDigits, c) > 0 THEN IndexOf(HexDigits, c) - 1
        ELSE IF IndexOf(UpperHexDigits, c) > 0 THEN IndexOf(UpperHexDigits, c) - 1
        ELSE NaN]

HexValue(c) == HexValues[c]

\* parseInt(string, 16): the longest prefix of base-16 digits, NaN when the
\* first character is no digit.
RECURSIVE ParseFrom(_, _, _)
ParseFrom(string, i, acc) ==
    IF i > Len(string) \/ HexValue(SubSeq(string, i, i)) = NaN
    THEN (IF i = 1 THEN NaN ELSE acc)
    ELSE ParseFrom(string, i + 1, 16 * acc + HexValue(SubSeq(string, i, i)))

parseInt16(string) == ParseFrom(string, 1, 0)

\* The store of a number into a Uint8Array: NaN becomes 0.
ToUint8(n) == IF n = NaN THEN 0 ELSE n % 256

\* b.toString(16)
RECURSIVE toString16(_)
toString16(b) ==
    IF b < 16 THEN SubSeq(HexDigits, b + 1, b + 1)
    ELSE toString16(b \div 16) \o SubSeq(HexDigits, (b % 16) + 1, (b % 16) + 1)

\* string.padStart(n, c)
RECURSIVE padStart(_, _, _)
padStart(string, n, c) ==
    IF Len(string) >= n THEN string ELSE padStart(c \o string, n, c)

\* buf2hex without padStart: a byte below 16 gives one character.
RECURSIVE buf2hex_NoPad(_)
buf2hex_NoPad(buf) ==
    IF Len(buf) = 0 THEN ""
    ELSE toString16(Head(buf)) \o buf2hex_NoPad(Tail(buf))

RECURSIVE buf2hex(_)
buf2hex(buf) ==
    IF Len(buf) = 0 THEN ""
    ELSE padStart(toString16(Head(buf)), 2, "0") \o buf2hex(Tail(buf))

\* hex2buf that reads only the second character of each pair.
hex2buf_LowDigit(hex) ==
    IF Len(hex) % 2 # 0 THEN Raise("Invalid hex string")
    ELSE Return([i \in 1..(Len(hex) \div 2) |->
                   ToUint8(parseInt16(Slice(hex, (i - 1) * 2 + 1, (i - 1) * 2 + 2)))])

hex2buf(hex) ==
    IF Len(hex) % 2 # 0 THEN Raise("Invalid hex string")
    ELSE Return([i \in 1..(Len(hex) \div 2) |->
                   ToUint8(parseInt16(Slice(hex, (i - 1) * 2, (i - 1) * 2 + 2)))])

\* The loop of constantTimeEqual from position i on: the value returned and
\* the number of positions the loop has examined.
RECURSIVE CompareFrom(_, _, _, _)
CompareFrom(a, b, i, result) ==
    IF i < Len(a)
    THEN LET next == BitOr(result, BitXor(charCodeAt(a, i), charCodeAt(b, i)))
         IN IF next = 0 THEN CompareFrom(a, b, i + 1, 0)
            ELSE CompareFrom(a, b, i + 1, next)
    ELSE [value |-> result = 0, steps |-> i]

\* A comparison that leaves its loop at the first difference.
constantTimeEqual_EarlyExit(a, b) ==
    IF Len(a) # Len(b) THEN [value |-> FALSE, steps |-> 0]
    ELSE LET differ == { i \in 0..(Len(a) - 1) : charCodeAt(a, i) # charCodeAt(b, i) }
         IN IF differ = {} THEN [value |-> TRUE, steps |-> Len(a)]
            ELSE [value |-> FALSE,
                  steps |-> 1 + CHOOSE i \in differ : \A j \in differ : i <= j]

\* A comparison of the lengths only.
constantTimeEqual_LengthOnly(a, b) ==
    [value |-> Len(a) = Len(b), steps |-> 0]

constantTimeEqual(a, b) ==
    IF Len(a) # Len(b) THEN [value |-> FALSE, steps |-> 0]
    ELSE CompareFrom(a, b, 0, 0)

\* string.split(separator), the separator being one character.
RECURSIVE split(_, _)
split(string, separator) ==
    LET at == { i \in 1..Len(string) : SubSeq(string, i, i) = separator }
    IN IF at = {} THEN <<string>>
       ELSE LET i == CHOOSE i \in at : \A j \in at : i <= j
            IN <<SubSeq(string, 1, i - 1)>>
                 \o split(SubSeq(string, i + 1, Len(string)), separator)

\* Number(string) of a string of decimal digits ("" is 0); NaN for a string
\* that is no numeric literal.
RECURSIVE NumberFrom(_, _, _)
NumberFrom(string, i, acc) ==
    IF i > Len(string) THEN acc
    ELSE LET d == HexValue(SubSeq(string, i, i))
         IN IF d = NaN \/ d > 9 THEN NaN
            ELSE NumberFrom(string, i + 1, 10 * acc + d)

Number(string) == NumberFrom(string, 1, 0)

\* The bytes of a string or of a buffer folded into one number; PBKDF2 below
\* is a function of its arguments through these numbers.
RECURSIVE StringCode(_, _)
StringCode(string, i) ==
    IF i = 0 THEN Len(string)
    ELSE (StringCode(string, i - 1) * 31 + charCodeAt(string, i - 1)) % 65536

RECURSIVE BufCode(_, _)
BufCode(buf, i) ==
    IF i = 0 THEN Len(buf)
    ELSE (BufCode(buf, i - 1) * 31 + buf[i]) % 65536

\* crypto.subtle.deriveBits({name: PBKDF2, salt, iterations, hash:
\* SHA-256}, key of password, length in bits).  The call raises for an
\* iteration count that is no positive integer and for a length that is zero
\* or no multiple of 8.  Byte i of the key does not depend on the length
\* asked for: a shorter key is a prefix of a longer one.
PBKDF2(password, salt, iterations, length) ==
    IF iterations = NaN \/ iterations = 0 THEN Raise("OperationError")
    ELSE IF length = 0 \/ length % 8 # 0 THEN Raise("OperationError")
    ELSE LET seed == ( StringCode(password, Len(password)) * 7
                       + BufCode(salt, Len(salt)) * 3
                       + iterations ) % 256
         IN Return([i \in 1..(length \div 8) |-> (seed * i + 13 * (i - 1)) % 256])

\* The credential of a password under a salt, an iteration count and a key
\* length in bytes: hex(salt):hex(key):iterations.
Credential(password, salt, iterations, keyLen) ==
    buf2hex(salt) \o ":" \o buf2hex(PBKDF2(password, salt, iterations, keyLen * 8).value)
      \o ":" \o ToString(iterations)

\* hashPassword, salt being the SALT_LEN random bytes it draws.
hashPassword(password, salt) == Credential(password, salt, ITERATIONS, KEY_LEN)

\* verifyPassword that derives the key with the iteration count and the key
\* length of the module, not with those of the stored credential.
verifyPassword_Defaults(password, stored) ==
    LET parts == split(stored, ":")
    IN IF Len(parts) # 3 THEN Raise("Bad hash format")
       ELSE LET salt == hex2buf(parts[1])
            IN IF salt.threw THEN salt
               ELSE LET bits == PBKDF2(password, salt.value, ITERATIONS, KEY_LEN * 8)
                    IN IF bits.threw THEN bits
                       ELSE Return(constantTimeEqual(buf2hex(bits.value),
                                                     parts[2]).value)

verifyPassword(password, stored) ==
    LET parts == split(stored, ":")
    IN IF Len(parts) # 3 THEN Raise("Bad hash format")
       ELSE LET salt == hex2buf(parts[1])
                iterations == Number(parts[3])
            IN IF salt.threw THEN salt
               ELSE LET bits == PBKDF2(password, salt.value, iterations,
                                       (Len(parts[2]) * 8) \div 2)
                    IN IF bits.threw THEN bits
                       ELSE Return(constantTimeEqual(buf2hex(bits.value),
                                                     parts[2]).value)

\* Strings in the password column that hashPassword did not write: one, two
\* and four parts, and three parts of which the salt has an odd length.
ForeignCredentials == {"00ff", "00ff:00ff", "00:ff:1:1", "00f:00ff:1"}

\* The passwords the forms carry and the credentials register stores for
\* them.
Passwords == { f.password : f \in LoginForms \cup RegisterForms }
Credentials == { hashPassword(password, salt) : password \in Passwords, salt \in Salts }

\* verifyPassword of every password against every credential, computed once.
Verifications ==
    { [password |-> password, stored |-> stored,
       outcome |-> verifyPassword(password, stored)] :
         password \in Passwords, stored \in Credentials }

\* verifyPassword(password, stored), looked up where it has been computed.
Verified(password, stored) ==
    IF \E v \in Verifications : v.password = password /\ v.stored = stored
    THEN (CHOOSE v \in Verifications :
            v.password = password /\ v.stored = stored).outcome
    ELSE verifyPassword(password, stored)

\* A generator that hands out the same token again.
RandomUUID_Reuse == { TokenString(1) }

\* crypto.randomUUID(): a token never returned before.  Tokens are opaque, so
\* the unused token of least index stands for any unused one.
RandomUUID ==
    { t \in TokenStrings :
        /\ \A r \in issued : r.token # t
        /\ t = TokenString(Cardinality({ r.token : r \in issued }) + 1) }

\* ------------------------------------------------------------- requests
IdleReq ==
    [op |-> "none", pc |-> "idle", cookie |-> Undefined,
     email |-> "", username |-> "", password |-> "",
     k |-> 0, sess |-> <<>>, now |-> 0, gusDone |-> FALSE, user |-> <<>>,
     looked |-> FALSE, changes |-> 0, images |-> <<>>, limitedImages |-> <<>>,
     tweetId |-> 0, reported |-> <<>>,
     status |-> 0, body |-> "", setCookie |-> Undefined,
     revokedAtStart |-> FALSE, expiredAtStart |-> FALSE]

\* The session cookies a client can hold: the ones a response has set.
Cookies == {Undefined, EmptyString, BogusToken} \cup { r.token : r \in issued }

\* c.json(body, status): the handler has answered.
Respond(r, status, body) ==
    [r EXCEPT !.pc = "done", !.status = status, !.body = body,
              !.email = "", !.username = "", !.password = "", !.k = 0,
              !.images = <<>>, !.limitedImages = <<>>, !.tweetId = 0]

\* An exception that leaves the handler: Hono answers 500.
Throw(r) == Respond(r, 500, "Internal Server Error")

\* The password module is not called on its own.
NoCall ==
    [pc |-> "none", password |-> "", tried |-> "", salt |-> <<>>,
     iterations |-> 0, keyLen |-> 0, a |-> "", b |-> "",
     stored |-> "", origin |-> "", outcome |-> Return(FALSE),
     compared |-> [value |-> FALSE, steps |-> 0]]

Init ==
    /\ tables = {}
    /\ users = {}
    /\ sessions = {}
    /\ seq = [users |-> 0, sessions |-> 0]
    /\ tablesInitialized = FALSE
    /\ clock = Ms(0, 0)
    /\ ticks = 0
    /\ content = [tweets |-> {}, photos |-> {}, likes |-> {}, comments |-> {}]
    /\ req = [p \in Procs |-> IdleReq]
    /\ issued = {}
    /\ revoked = {}
    /\ call = NoCall

\* No handler has just returned.  A returned handler's answer is delivered
\* before anything else is scheduled, so that each answer is seen in the
\* state in which it was given.
NoneDone == \A p \in Procs : req[p].pc # "done"

\* A clock whose advance also purges the sessions that have expired by then.
Tick_Sweep(d) ==
    /\ NoneDone
    /\ ticks < MaxTicks
    /\ clock' = AddMs(clock, d)
    /\ ticks' = ticks + 1
    /\ sessions' = { s \in sessions : Seconds(AddMs(clock, d)) < s.expiresAt }
    /\ UNCHANGED <<tables, users, seq, tablesInitialized, call, content, req, hist>>

\* Time passes: the clock moves on by d.
Tick(d) ==
    /\ NoneDone
    /\ ticks < MaxTicks
    /\ clock' = AddMs(clock, d)
    /\ ticks' = ticks + 1
    /\ UNCHANGED <<db, tablesInitialized, call, content, req, hist>>

\* ensureSchema, up to its first await: the flag is read when the handler starts.
EnterSchema(r, next) ==
    IF tablesInitialized THEN [r EXCEPT !.pc = next]
    ELSE [r EXCEPT !.pc = "schema"]

\* The handler's first statement after ensureSchema.
AfterSchema(op) ==
    CASE op = "register" -> "reg_sel_email"
      [] op = "login" -> "login_sel"
      [] op = "tweet" -> "tweet_ins"
      [] op = "feed" -> "feed_tweets"
      [] OTHER -> "done"

\* A new request with a fresh context.
NewRequest(p, op, cookie) ==
    [IdleReq EXCEPT !.op = op, !.cookie = cookie,
        !.revokedAtStart = cookie \in revoked,
        !.expiredAtStart =
            \E r \in issued : r.token = cookie /\ Seconds(clock) >= r.expiresAt]

\* The slot is free: no request occupies it.
Free(p) == NoneDone /\ req[p].pc = "idle"

\* The request in slot p is about to run the statement pc.
At(p, pc) == NoneDone /\ req[p].pc = pc

\* The answer of slot p has left: the slot is free for the next request.
Deliver(p) ==
    /\ req[p].pc = "done"
    /\ req' = [req EXCEPT ![p] = IdleReq]
    /\ UNCHANGED <<db, tablesInitialized, call, content, clock, ticks, hist>>

\* POST /api/auth/register arrives: ensureSchema is entered.
StartRegister(p) ==
    /\ Free(p)
    /\ Cardinality(issued) < MaxTokens
    /\ req' = [req EXCEPT ![p] =
                EnterSchema(NewRequest(p, "register", Undefined), "reg_sel_email")]
    /\ UNCHANGED <<db, tablesInitialized, call, content, clock, ticks, hist>>

\* POST /api/auth/login arrives: ensureSchema is entered.
StartLogin(p) ==
    /\ Free(p)
    /\ Cardinality(issued) < MaxTokens
    /\ req' = [req EXCEPT ![p] =
                EnterSchema(NewRequest(p, "login", Undefined), "login_sel")]
    /\ UNCHANGED <<db, tablesInitialized, call, content, clock, ticks, hist>>

\* The CREATE TABLE IF NOT EXISTS statement that follows the k statements
\* this call of ensureSchema has run: it creates its table unless the table
\* exists.  After the last statement the flag is set and the handler goes on.
SchemaStep(p) ==
    /\ At(p, "schema")
    /\ LET j == req[p].k + 1
       IN /\ tables' = tables \cup {TableNames[j]}
          /\ IF j = Len(TableNames)
             THEN /\ tablesInitialized' = TRUE
                  /\ req' = [req EXCEPT ![p].pc = AfterSchema(req[p].op),
                                        ![p].k = 0]
             ELSE /\ req' = [req EXCEPT ![p].k = j]
                  /\ UNCHANGED tablesInitialized
    /\ UNCHANGED <<users, sessions, seq, clock, ticks, content, hist, call>>

\* ------------------------------------------------------------- register
\* c.req.valid('json') of register, then SELECT id FROM users WHERE email = ?
RegSelectEmail(p) ==
    /\ At(p, "reg_sel_email")
    /\ \E form \in RegisterForms :
       LET r == [req[p] EXCEPT !.email = form.email,
                    !.username = form.username, !.password = form.password]
       IN req' = [req EXCEPT ![p] =
            IF "users" \notin tables THEN Throw(r)
            ELSE IF \E u \in users : u.email = r.email
                 THEN Respond(r, 400, "User already exists")
                 ELSE [r EXCEPT !.pc = "reg_sel_username"]]
    /\ UNCHANGED <<db, tablesInitialized, call, content, clock, ticks, hist>>

\* SELECT id FROM users WHERE username = ?
RegSelectUsername(p) ==
    /\ At(p, "reg_sel_username")
    /\ LET r == req[p]
       IN req' = [req EXCEPT ![p] =
            IF "users" \notin tables THEN Throw(r)
            ELSE IF \E u \in users : u.username = r.username
                 THEN Respond(r, 400, "Username already taken")
                 ELSE [r EXCEPT !.pc = "reg_ins_user"]]
    /\ UNCHANGED <<db, tablesInitialized, call, content, clock, ticks, hist>>

\* An INSERT INTO users on a table without the UNIQUE constraints.
RegInsertUser_NoUnique(p) ==
    /\ At(p, "reg_ins_user")
    /\ \E salt \in Salts :
        LET r == req[p]
            row == [id |-> seq.users + 1, email |-> r.email,
                    password |-> hashPassword(r.password, salt),
                    username |-> r.username,
                    description |-> "null", profilePhoto |-> "null"]
        IN IF "users" \notin tables
           THEN /\ req' = [req EXCEPT ![p] = Throw(r)]
                /\ UNCHANGED <<users, seq>>
           ELSE /\ users' = users \cup {row}
                /\ seq' = [seq EXCEPT !.users = @ + 1]
                /\ req' = [req EXCEPT ![p] =
                            [r EXCEPT !.user = <<row>>, !.pc = "reg_ins_session"]]
    /\ UNCHANGED <<tables, sessions, tablesInitialized, call, content, clock, ticks, hist>>

\* hashPassword, then INSERT INTO users ... RETURNING under the UNIQUE
\* constraints of email and username.
RegInsertUser(p) ==
    /\ At(p, "reg_ins_user")
    /\ \E salt \in Salts :
        LET r == req[p]
            row == [id |-> seq.users + 1, email |-> r.email,
                    password |-> hashPassword(r.password, salt),
                    username |-> r.username,
                    description |-> "null", profilePhoto |-> "null"]
        IN IF \/ "users" \notin tables
              \/ \E u \in users : u.email = r.email \/ u.username = r.username
           THEN /\ req' = [req EXCEPT ![p] = Throw(r)]
                /\ UNCHANGED <<users, seq>>
           ELSE /\ users' = users \cup {row}
                /\ seq' = [seq EXCEPT !.users = @ + 1]
                /\ req' = [req EXCEPT ![p] =
                            [r EXCEPT !.user = <<row>>, !.pc = "reg_ins_session"]]
    /\ UNCHANGED <<tables, sessions, tablesInitialized, call, content, clock, ticks, hist>>

\* "Create session": randomUUID, new Date() plus 30 days, Date.now(), the
\* INSERT INTO sessions under the UNIQUE constraint of token, setCookie and
\* the answer.  The clock moves by d between the two reads.
CreateSession(p, d) ==
    \E token \in RandomUUID :
        /\ clock' = AddMs(clock, d)
        /\ ticks' = ticks
        /\ LET r == req[p]
               expiresAtDate == AddDays(clock, SessionDays)
               row == [id |-> seq.sessions + 1, userId |-> r.user[1].id,
                       token |-> token, createdAt |-> Seconds(AddMs(clock, d)),
                       expiresAt |-> Seconds(expiresAtDate)]
           IN IF \/ "sessions" \notin tables
                 \/ \E s \in sessions : s.token = token
              THEN /\ req' = [req EXCEPT ![p] = Throw(r)]
                   /\ UNCHANGED <<sessions, seq, issued>>
              ELSE /\ sessions' = sessions \cup {row}
                   /\ seq' = [seq EXCEPT !.sessions = @ + 1]
                   /\ issued' = issued \cup {row}
                   /\ req' = [req EXCEPT ![p] =
                               Respond([r EXCEPT !.setCookie = token], 200, "user")]

\* The last statement of register.
RegInsertSession(p, d) ==
    /\ At(p, "reg_ins_session")
    /\ CreateSession(p, d)
    /\ UNCHANGED <<tables, users, tablesInitialized, call, content, revoked>>

\* ---------------------------------------------------------------- login
\* c.req.valid('json') of login, then SELECT * FROM users WHERE email = ?
LoginSelect(p) ==
    /\ At(p, "login_sel")
    /\ \E form \in LoginForms :
       LET r == [req[p] EXCEPT !.email = form.email, !.password = form.password]
           found == RowsInOrder({u \in users : u.email = r.email})
       IN req' = [req EXCEPT ![p] =
            IF "users" \notin tables THEN Throw(r)
            ELSE IF Len(found) = 0 THEN Respond(r, 404, "User not found")
                 ELSE [r EXCEPT !.user = <<found[1]>>, !.pc = "login_verify"]]
    /\ UNCHANGED <<db, tablesInitialized, call, content, clock, ticks, hist>>

\* A login that catches the error of verifyPassword and answers as for a
\* wrong password.
LoginVerify_Swallow(p, d) ==
    /\ At(p, "login_verify")
    /\ LET ok == Verified(req[p].password, req[p].user[1].password)
       IN IF ~ok.threw /\ ok.value
          THEN /\ CreateSession(p, d)
               /\ UNCHANGED <<tables, users, tablesInitialized, call, content, revoked>>
          ELSE /\ req' = [req EXCEPT ![p] =
                            Respond(req[p], 401, "Invalid credentials")]
               /\ UNCHANGED <<db, tablesInitialized, call, content, clock, ticks, hist>>

\* A login that creates the session whatever verifyPassword returns.
LoginVerify_NoCheck(p, d) ==
    /\ At(p, "login_verify")
    /\ LET ok == Verified(req[p].password, req[p].user[1].password)
       IN IF ok.threw
          THEN /\ req' = [req EXCEPT ![p] = Throw(req[p])]
               /\ UNCHANGED <<db, tablesInitialized, call, content, clock, ticks, hist>>
          ELSE /\ CreateSession(p, d)
               /\ UNCHANGED <<tables, users, tablesInitialized, call, content, revoked>>

\* verifyPassword, then either 401 or the session is created; an error
\* verifyPassword raises leaves the handler.
LoginVerify(p, d) ==
    /\ At(p, "login_verify")
    /\ LET ok == Verified(req[p].password, req[p].user[1].password)
       IN IF ok.threw
          THEN /\ req' = [req EXCEPT ![p] = Throw(req[p])]
               /\ UNCHANGED <<db, tablesInitialized, call, content, clock, ticks, hist>>
          ELSE IF ok.value
          THEN /\ CreateSession(p, d)
               /\ UNCHANGED <<tables, users, tablesInitialized, call, content, revoked>>
          ELSE /\ req' = [req EXCEPT ![p] =
                            Respond(req[p], 401, "Invalid credentials")]
               /\ UNCHANGED <<db, tablesInitialized, call, content, clock, ticks, hist>>

\* --------------------------------------------------------------- logout
\* A logout that clears the cookie and leaves the session row in the store.
Logout_NoDelete(p) ==
    /\ Free(p)
    /\ \E cookie \in Cookies :
        LET r == NewRequest(p, "logout", cookie)
        IN /\ revoked' = IF Falsy(cookie) \/ "sessions" \notin tables THEN revoked
                          ELSE revoked \cup ({cookie} \cap { i.token : i \in issued })
           /\ req' = [req EXCEPT ![p] =
                       Respond([r EXCEPT !.setCookie = EmptyString], 200, "success")]
    /\ UNCHANGED <<db, tablesInitialized, call, content, clock, ticks, issued>>

\* POST /api/auth/logout: DELETE FROM sessions WHERE token = ? when a cookie
\* is presented, and { success: true } in every case.
Logout(p) ==
    /\ Free(p)
    /\ \E cookie \in Cookies :
        LET r == NewRequest(p, "logout", cookie)
            hit == { s \in sessions : s.token = cookie }
        IN IF Falsy(cookie)
           THEN /\ req' = [req EXCEPT ![p] = Respond(r, 200, "success")]
                /\ UNCHANGED <<sessions, revoked>>
           ELSE IF "sessions" \notin tables
           THEN /\ req' = [req EXCEPT ![p] = Throw(r)]
                /\ UNCHANGED <<sessions, revoked>>
           ELSE /\ sessions' = sessions \ hit
                /\ revoked' = revoked \cup ({cookie} \cap { i.token : i \in issued })
                /\ req' = [req EXCEPT ![p] =
                            Respond([r EXCEPT !.setCookie = EmptyString,
                                              !.changes = Cardinality(hit)],
                                    200, "success")]
    /\ UNCHANGED <<tables, users, seq, tablesInitialized, call, content, clock, ticks, issued>>

\* --------------------------------------------------- getUserFromSession
\* What the caller does with the value getUserFromSession returns.
GusReturn(r, user) ==
    LET q == [r EXCEPT !.gusDone = TRUE, !.user = user]
    IN CASE q.op = "me" ->
              Respond(q, 200, IF Len(user) = 0 THEN "null" ELSE "user")
         [] q.op = "tweet" ->
              IF Len(user) = 0 THEN Respond(q, 401, "Unauthorized")
              ELSE EnterSchema(q, "tweet_ins")
         [] OTHER ->
              IF Len(user) = 0 THEN Respond(q, 401, "Unauthorized")
              ELSE [q EXCEPT !.pc = "authed"]

\* getCookie, the falsy test, and SELECT user_id, expires_at FROM sessions
\* WHERE token = ?
GusLookup(r) ==
    IF Falsy(r.cookie) THEN GusReturn(r, <<>>)
    ELSE LET q == [r EXCEPT !.looked = TRUE]
             found == RowsInOrder({ s \in sessions : s.token = r.cookie })
         IN IF "sessions" \notin tables THEN Throw(q)
            ELSE IF Len(found) = 0 THEN GusReturn(q, <<>>)
                 ELSE [q EXCEPT !.pc = "gus_clock",
                         !.sess = <<[user_id |-> found[1].userId,
                                     expires_at |-> found[1].expiresAt]>>]

\* GET /api/auth/me arrives and getUserFromSession runs to its first await.
StartMe(p) ==
    /\ Free(p)
    /\ \E cookie \in Cookies :
          req' = [req EXCEPT ![p] = GusLookup(NewRequest(p, "me", cookie))]
    /\ UNCHANGED <<db, tablesInitialized, call, content, clock, ticks, hist>>

\* The expiry test with > in place of >=.
GusClock_Strict(p) ==
    /\ At(p, "gus_clock")
    /\ LET nowSeconds == Seconds(clock)
       IN req' = [req EXCEPT ![p].now = nowSeconds,
                            ![p].pc = IF nowSeconds > req[p].sess[1].expires_at
                                      THEN "gus_delete" ELSE "gus_sel_user"]
    /\ UNCHANGED <<db, tablesInitialized, call, content, clock, ticks, hist>>

\* nowSeconds = Math.floor(Date.now() / 1000) and the expiry test.
GusClock(p) ==
    /\ At(p, "gus_clock")
    /\ LET nowSeconds == Seconds(clock)
       IN req' = [req EXCEPT ![p].now = nowSeconds,
                            ![p].pc = IF nowSeconds >= req[p].sess[1].expires_at
                                      THEN "gus_delete" ELSE "gus_sel_user"]
    /\ UNCHANGED <<db, tablesInitialized, call, content, clock, ticks, hist>>

\* A lazy-expiry delete that raises when it deleted no row.
GusDelete_Raises(p) ==
    /\ At(p, "gus_delete")
    /\ LET hit == { s \in sessions : s.token = req[p].cookie }
       IN /\ sessions' = sessions \ hit
          /\ req' = [req EXCEPT ![p] =
                      IF hit = {} THEN Throw(req[p])
                      ELSE GusReturn([req[p] EXCEPT !.changes = Cardinality(hit)], <<>>)]
    /\ UNCHANGED <<tables, users, seq, tablesInitialized, call, content, clock, ticks, issued, revoked>>

\* DELETE FROM sessions WHERE token = ? of an expired session; null.
GusDelete(p) ==
    /\ At(p, "gus_delete")
    /\ LET hit == { s \in sessions : s.token = req[p].cookie }
       IN /\ sessions' = sessions \ hit
          /\ req' = [req EXCEPT ![p] =
                      GusReturn([req[p] EXCEPT !.changes = Cardinality(hit)], <<>>)]
    /\ UNCHANGED <<tables, users, seq, tablesInitialized, call, content, clock, ticks, issued, revoked>>

\* The columns getUserFromSession selects of a user row.
UserColumns(u) ==
    [id |-> u.id, email |-> u.email, username |-> u.username,
     description |-> u.description, profilePhoto |-> u.profilePhoto]

\* The user lookup without its test for an empty result: users[0] is
\* undefined and reading its id raises.
GusSelectUser_NoCheck(p) ==
    /\ At(p, "gus_sel_user")
    /\ LET r == req[p]
           found == RowsInOrder({ u \in users : u.id = r.sess[1].user_id })
       IN req' = [req EXCEPT ![p] =
            IF "users" \notin tables \/ Len(found) = 0 THEN Throw(r)
            ELSE GusReturn(r, <<UserColumns(found[1])>>)]
    /\ UNCHANGED <<db, tablesInitialized, call, clock, ticks, content, hist>>

\* The user lookup without its WHERE clause: the first user row is taken.
GusSelectUser_AnyUser(p) ==
    /\ At(p, "gus_sel_user")
    /\ LET r == req[p]
           found == RowsInOrder(users)
       IN req' = [req EXCEPT ![p] =
            IF "users" \notin tables THEN Throw(r)
            ELSE IF Len(found) = 0 THEN GusReturn(r, <<>>)
                 ELSE GusReturn(r, <<UserColumns(found[1])>>)]
    /\ UNCHANGED <<db, tablesInitialized, call, content, clock, ticks, hist>>

\* A validation that slides the expiry of the session it has found valid.
GusSelectUser_Sliding(p) ==
    /\ At(p, "gus_sel_user")
    /\ LET r == req[p]
           found == RowsInOrder({ u \in users : u.id = r.sess[1].user_id })
       IN req' = [req EXCEPT ![p] =
            IF "users" \notin tables THEN Throw(r)
            ELSE IF Len(found) = 0 THEN GusReturn(r, <<>>)
                 ELSE GusReturn(r, <<UserColumns(found[1])>>)]
    /\ sessions' = { IF s.token = req[p].cookie
                     THEN [s EXCEPT !.expiresAt = Seconds(AddDays(clock, SessionDays))]
                     ELSE s : s \in sessions }
    /\ UNCHANGED <<tables, users, seq, tablesInitialized, call, content, clock, ticks, hist>>

\* SELECT id, email, username, description, profile_photo FROM users
\* WHERE id = ?; null when there is no such user.
GusSelectUser(p) ==
    /\ At(p, "gus_sel_user")
    /\ LET r == req[p]
           found == RowsInOrder({ u \in users : u.id = r.sess[1].user_id })
       IN req' = [req EXCEPT ![p] =
            IF "users" \notin tables THEN Throw(r)
            ELSE IF Len(found) = 0 THEN GusReturn(r, <<>>)
                 ELSE GusReturn(r, <<UserColumns(found[1])>>)]
    /\ UNCHANGED <<db, tablesInitialized, call, content, clock, ticks, hist>>

\* The tweets, likes and comments posted so far.
Posts ==
    Cardinality(content.tweets) + Cardinality(content.likes)
        + Cardinality(content.comments)

\* ------------------------------------------------------- POST /api/tweets
StartTweet(p) ==
    /\ Free(p)
    /\ Posts < MaxRows
    /\ \E cookie \in Cookies :
          req' = [req EXCEPT ![p] = GusLookup(NewRequest(p, "tweet", cookie))]
    /\ UNCHANGED <<db, tablesInitialized, call, clock, ticks, content, hist>>

\* images || [] of an optional array.
OrEmpty(images) == IF Len(images) = 1 THEN images[1] ELSE <<>>

\* c.json({ id: tweetId, userId: user.id, text, images: images || [],
\* createdAt }): the answer names the tweet and reports the images of the
\* request.
TweetAnswer(r) ==
    [Respond(r, 200, "tweet") EXCEPT !.tweetId = r.tweetId, !.images = r.images,
                                     !.reported = OrEmpty(r.images)]

\* c.req.valid('json'), Date.now(), INSERT INTO tweets ... RETURNING id
TweetInsert(p) ==
    /\ At(p, "tweet_ins")
    /\ \E form \in TweetForms :
        LET r == req[p]
            createdAt == Seconds(clock)
            row == [id |-> Cardinality(content.tweets) + 1, user_id |-> r.user[1].id,
                    text |-> form.text, created_at |-> createdAt]
        IN IF "tweets" \notin tables
           THEN /\ req' = [req EXCEPT ![p] = Throw(r)]
                /\ UNCHANGED content
           ELSE /\ content' = [content EXCEPT !.tweets = @ \cup {row}]
                /\ req' = [req EXCEPT ![p] =
                     IF Len(form.images) = 1 /\ Len(form.images[1]) > 0
                     THEN [r EXCEPT !.pc = "tweet_photo", !.k = 1, !.tweetId = row.id,
                              !.images = form.images,
                              !.limitedImages = Slice(form.images[1], 0, MaxImages)]
                     ELSE TweetAnswer([r EXCEPT !.tweetId = row.id,
                                                !.images = form.images])]
    /\ UNCHANGED <<db, tablesInitialized, call, clock, ticks, hist>>

\* INSERT INTO photos (tweet_id, url) of the next of the limited images.
TweetInsertPhoto(p) ==
    /\ At(p, "tweet_photo")
    /\ LET r == req[p]
           row == [id |-> Cardinality(content.photos) + 1, tweet_id |-> r.tweetId,
                   url |-> r.limitedImages[r.k]]
       IN IF "photos" \notin tables
          THEN /\ req' = [req EXCEPT ![p] = Throw(r)]
               /\ UNCHANGED content
          ELSE /\ content' = [content EXCEPT !.photos = @ \cup {row}]
               /\ req' = [req EXCEPT ![p] =
                    IF r.k = Len(r.limitedImages) THEN TweetAnswer(r)
                    ELSE [r EXCEPT !.k = @ + 1]]
    /\ UNCHANGED <<db, tablesInitialized, call, clock, ticks, hist>>

\* -------------------------------------------------------- GET /api/tweets
GetTweets(p) ==
    /\ Free(p)
    /\ req' = [req EXCEPT ![p] =
                EnterSchema(NewRequest(p, "feed", Undefined), "feed_tweets")]
    /\ UNCHANGED <<db, tablesInitialized, call, clock, ticks, content, hist>>

\* SELECT ... FROM tweets t JOIN users u
FeedSelectTweets(p) ==
    /\ At(p, "feed_tweets")
    /\ req' = [req EXCEPT ![p] =
                IF "tweets" \notin tables \/ "users" \notin tables THEN Throw(req[p])
                ELSE [req[p] EXCEPT !.pc = "feed_photos"]]
    /\ UNCHANGED <<db, tablesInitialized, call, clock, ticks, content, hist>>

\* SELECT tweet_id AS tweetId, url FROM photos, and the answer.
FeedSelectPhotos(p) ==
    /\ At(p, "feed_photos")
    /\ req' = [req EXCEPT ![p] =
                IF "photos" \notin tables THEN Throw(req[p])
                ELSE Respond(req[p], 200, "tweets")]
    /\ UNCHANGED <<db, tablesInitialized, call, clock, ticks, content, hist>>

\* ----------------------------------------------- POST /api/tweets/:id/like
StartLike(p) ==
    /\ Free(p)
    /\ Posts < MaxRows
    /\ \E cookie \in Cookies :
          req' = [req EXCEPT ![p] = GusLookup(NewRequest(p, "like", cookie))]
    /\ UNCHANGED <<db, tablesInitialized, call, clock, ticks, content, hist>>

\* A like stored under the id of any user, not that of the session's user.
LikeInsert_AnyUser(p) ==
    /\ At(p, "authed")
    /\ req[p].op = "like"
    /\ \E id \in TweetParams : \E u \in users :
        LET r == req[p]
            row == [id |-> Cardinality(content.likes) + 1, user_id |-> u.id,
                    tweet_id |-> id]
        IN IF "likes" \notin tables
           THEN /\ req' = [req EXCEPT ![p] = Throw(r)]
                /\ UNCHANGED content
           ELSE /\ content' = [content EXCEPT !.likes = @ \cup {row}]
                /\ req' = [req EXCEPT ![p] = Respond(r, 200, "success")]
    /\ UNCHANGED <<db, tablesInitialized, call, clock, ticks, hist>>

\* INSERT INTO likes (user_id, tweet_id)
LikeInsert(p) ==
    /\ At(p, "authed")
    /\ req[p].op = "like"
    /\ \E id \in TweetParams :
        LET r == req[p]
            row == [id |-> Cardinality(content.likes) + 1, user_id |-> r.user[1].id,
                    tweet_id |-> id]
        IN IF "likes" \notin tables
           THEN /\ req' = [req EXCEPT ![p] = Throw(r)]
                /\ UNCHANGED content
           ELSE /\ content' = [content EXCEPT !.likes = @ \cup {row}]
                /\ req' = [req EXCEPT ![p] = Respond(r, 200, "success")]
    /\ UNCHANGED <<db, tablesInitialized, call, clock, ticks, hist>>

\* -------------------------------------------- POST /api/tweets/:id/comment
StartComment(p) ==
    /\ Free(p)
    /\ Posts < MaxRows
    /\ \E cookie \in Cookies :
          req' = [req EXCEPT ![p] = GusLookup(NewRequest(p, "comment", cookie))]
    /\ UNCHANGED <<db, tablesInitialized, call, clock, ticks, content, hist>>

\* c.req.valid('json'), Date.now(), INSERT INTO comments
CommentInsert(p) ==
    /\ At(p, "authed")
    /\ req[p].op = "comment"
    /\ \E id \in TweetParams : \E text \in CommentTexts :
        LET r == req[p]
            createdAt == Seconds(clock)
            row == [id |-> Cardinality(content.comments) + 1, user_id |-> r.user[1].id,
                    tweet_id |-> id, text |-> text, created_at |-> createdAt]
        IN IF "comments" \notin tables
           THEN /\ req' = [req EXCEPT ![p] = Throw(r)]
                /\ UNCHANGED content
           ELSE /\ content' = [content EXCEPT !.comments = @ \cup {row}]
                /\ req' = [req EXCEPT ![p] = Respond(r, 200, "success")]
    /\ UNCHANGED <<db, tablesInitialized, call, clock, ticks, hist>>

\* --------------------------------------------- GET /api/tweets/:id/comments
GetComments(p) ==
    /\ Free(p)
    /\ \E id \in TweetParams :
        LET r == NewRequest(p, "comments", Undefined)
        IN req' = [req EXCEPT ![p] =
                    IF "comments" \notin tables \/ "users" \notin tables THEN Throw(r)
                    ELSE Respond(r, 200, "comments")]
    /\ UNCHANGED <<db, tablesInitialized, call, clock, ticks, content, hist>>

\* ------------------------------------------------ GET /api/users/:username
GetUser(p) ==
    /\ Free(p)
    /\ \E username \in UsernameParams :
        LET r == NewRequest(p, "profile", Undefined)
            found == RowsInOrder({ u \in users : u.username = username })
        IN req' = [req EXCEPT ![p] =
                    IF "users" \notin tables THEN Throw(r)
                    ELSE IF Len(found) = 0 THEN Respond(r, 404, "User not found")
                         ELSE [r EXCEPT !.user = <<UserColumns(found[1])>>,
                                        !.pc = "profile_tweets"]]
    /\ UNCHANGED <<db, tablesInitialized, call, clock, ticks, content, hist>>

\* SELECT ... FROM tweets t WHERE t.user_id = ?
ProfileSelectTweets(p) ==
    /\ At(p, "profile_tweets")
    /\ req' = [req EXCEPT ![p] =
                IF "tweets" \notin tables THEN Throw(req[p])
                ELSE [req[p] EXCEPT !.pc = "profile_photos"]]
    /\ UNCHANGED <<db, tablesInitialized, call, clock, ticks, content, hist>>

\* SELECT tweet_id AS tweetId, url FROM photos, and the answer.
ProfileSelectPhotos(p) ==
    /\ At(p, "profile_photos")
    /\ req' = [req EXCEPT ![p] =
                IF "photos" \notin tables THEN Throw(req[p])
                ELSE Respond(req[p], 200, "profile")]
    /\ UNCHANGED <<db, tablesInitialized, call, clock, ticks, content, hist>>

\* -------------------------------------------------- POST /api/users/update
StartUpdate(p) ==
    /\ Free(p)
    /\ \E cookie \in Cookies :
          req' = [req EXCEPT ![p] = GusLookup(NewRequest(p, "update", cookie))]
    /\ UNCHANGED <<db, tablesInitialized, call, clock, ticks, content, hist>>

\* An update that writes the row back under a new id.
Updated_NewId(u, form) ==
    [u EXCEPT
       !.id = @ + MaxTokens,
       !.username = IF Len(form.username) = 1 THEN form.username[1] ELSE @,
       !.description = IF Len(form.description) = 1 THEN form.description[1] ELSE @,
       !.profilePhoto = IF Len(form.profilePhoto) = 1 THEN form.profilePhoto[1] ELSE @]

\* The row of a user after UPDATE users SET <the provided fields>.
Updated(u, form) ==
    [u EXCEPT
       !.username = IF Len(form.username) = 1 THEN form.username[1] ELSE @,
       !.description = IF Len(form.description) = 1 THEN form.description[1] ELSE @,
       !.profilePhoto = IF Len(form.profilePhoto) = 1 THEN form.profilePhoto[1] ELSE @]

\* c.req.valid('json'); the user as the answer when no field is provided, else
\* UPDATE users SET ... WHERE id = ? under the UNIQUE constraint of username.
UpdateUser(p) ==
    /\ At(p, "authed")
    /\ req[p].op = "update"
    /\ \E form \in UpdateForms :
        LET r == req[p]
            hit == { u \in users : u.id = r.user[1].id }
            rest == users \ hit
            new == { Updated(u, form) : u \in hit }
        IN IF Len(form.username) + Len(form.description) + Len(form.profilePhoto) = 0
           THEN /\ req' = [req EXCEPT ![p] = Respond(r, 200, "user")]
                /\ UNCHANGED users
           ELSE IF \/ "users" \notin tables
                   \/ \E u \in new : \E v \in rest : u.username = v.username
           THEN /\ req' = [req EXCEPT ![p] = Throw(r)]
                /\ UNCHANGED users
           ELSE /\ users' = rest \cup new
                /\ req' = [req EXCEPT ![p] = Respond(r, 200, "success")]
    /\ UNCHANGED <<tables, sessions, seq, tablesInitialized, call, clock, ticks, content, hist>>

\* One step of a tweet, like, comment or profile request in slot p.
AppHandler(p) ==
    \/ StartTweet(p)
    \/ TweetInsert(p)
    \/ TweetInsertPhoto(p)
    \/ GetTweets(p)
    \/ FeedSelectTweets(p)
    \/ FeedSelectPhotos(p)
    \/ StartLike(p)
    \/ LikeInsert(p)
    \/ StartComment(p)
    \/ CommentInsert(p)
    \/ GetComments(p)
    \/ GetUser(p)
    \/ ProfileSelectTweets(p)
    \/ ProfileSelectPhotos(p)
    \/ StartUpdate(p)
    \/ UpdateUser(p)

\* One step of the request in slot p; drift is what the clock may do between
\* two reads of one synchronous block.
Handler(p, drift) ==
    \/ StartRegister(p)
    \/ StartLogin(p)
    \/ SchemaStep(p)
    \/ RegSelectEmail(p)
    \/ RegSelectUsername(p)
    \/ RegInsertUser(p)
    \/ \E d \in drift : RegInsertSession(p, d)
    \/ LoginSelect(p)
    \/ \E d \in drift : LoginVerify(p, d)
    \/ Logout(p)
    \/ StartMe(p)
    \/ GusClock(p)
    \/ GusDelete(p)
    \/ GusSelectUser(p)

\* Concurrent requests; the clock moves by whole session lifetimes.
Next ==
    \/ \E p \in Procs : Deliver(p)
    \/ \E d \in DaySteps : Tick(d)
    \/ \E p \in Procs : Handler(p, NoDrift)

Spec == Init /\ [][Next]_vars

\* One request at a time; the clock moves by milliseconds and by days.
NextClock ==
    \/ Deliver(1)
    \/ \E d \in ClockSteps : Tick(d)
    \/ Handler(1, SyncDrift)

SpecClock == Init /\ [][NextClock]_vars

\* ------------------------------------------------- faults of the database
\* A user row is deleted in D1 by hand: no endpoint deletes one, and the
\* sessions of the user stay behind.
DropUser ==
    /\ NoneDone
    /\ \E u \in users : users' = users \ {u}
    /\ UNCHANGED <<tables, sessions, seq, tablesInitialized, call, clock, ticks, content,
                   req, hist>>

\* The password column of a user row is overwritten in D1 by hand with a
\* string hashPassword did not produce.
CorruptCredential ==
    /\ NoneDone
    /\ \E u \in users : \E stored \in ForeignCredentials :
        /\ u.password \notin ForeignCredentials
        /\ users' = (users \ {u}) \cup {[u EXCEPT !.password = stored]}
    /\ UNCHANGED <<tables, sessions, seq, tablesInitialized, call, clock, ticks, content,
                   req, hist>>

\* One request at a time, on a database that is also changed by hand.
NextFault ==
    \/ Deliver(1)
    \/ \E d \in DaySteps : Tick(d)
    \/ Handler(1, NoDrift)
    \/ DropUser
    \/ CorruptCredential

SpecFault == Init /\ [][NextFault]_vars

\* One request at a time, of any endpoint of the application.
NextApp ==
    \/ Deliver(1)
    \/ \E d \in DaySteps : Tick(d)
    \/ Handler(1, NoDrift)
    \/ AppHandler(1)

SpecApp == Init /\ [][NextApp]_vars

\* Concurrent requests that register, log in and update profiles.
NextRace ==
    \/ \E p \in Procs : Deliver(p)
    \/ \E d \in DaySteps : Tick(d)
    \/ \E p \in Procs : Handler(p, NoDrift)
    \/ \E p \in Procs : StartUpdate(p)
    \/ \E p \in Procs : UpdateUser(p)

SpecRace == Init /\ [][NextRace]_vars

\* ------------------------------------------- the password module on its own
\* The salts getRandomValues may draw: bytes below 16, which take a padded
\* hex digit, the salt of the registrations, and all bytes 255.
SaltInputs ==
    Salts \cup { [i \in 1..SALT_LEN |-> 0], [i \in 1..SALT_LEN |-> i - 1],
                 [i \in 1..SALT_LEN |-> 255] }

\* The iteration count and key length a credential was created with: those
\* of this version of the module, and others.
ParameterInputs ==
    { [iterations |-> ITERATIONS, keyLen |-> KEY_LEN],
      [iterations |-> 1000, keyLen |-> KEY_LEN],
      [iterations |-> ITERATIONS, keyLen |-> 16],
      [iterations |-> 1, keyLen |-> 1] }

\* Stored strings hashPassword did not write: other part counts; and of three
\* parts a salt of odd length, a salt that is no hex, a key of odd length, an
\* empty key, a key in upper case, iteration fields that are no number or 0.
StoredInputs ==
    ForeignCredentials \cup
    { "", "::", "zz:00ff:1", "00ff:00f:1", "00ff::1", "00ff:00FF:1",
      "00ff:00ff:abc", "00ff:00ff:0", "00ff:00ff:1" }

\* Pairs of strings to compare: equal, different at the first position, at
\* the last, at every position, and of different lengths.
CompareInputs ==
    { <<"", "">>, <<"00ff10ab", "00ff10ab">>, <<"10ff10ab", "00ff10ab">>,
      <<"00ff10ab", "00ff10ac">>, <<"00ff10ab", "ffAB01zz">>,
      <<"00ff10ab", "00ff10">>, <<"", "00">>, <<"00ff10", "00ff10ab">> }

\* The inputs of one experiment with the module.
InitHash ==
    /\ tables = {}
    /\ users = {}
    /\ sessions = {}
    /\ seq = [users |-> 0, sessions |-> 0]
    /\ tablesInitialized = FALSE
    /\ clock = Ms(0, 0)
    /\ ticks = 0
    /\ content = [tweets |-> {}, photos |-> {}, likes |-> {}, comments |-> {}]
    /\ req = [p \in Procs |-> IdleReq]
    /\ issued = {}
    /\ revoked = {}
    /\ \/ \E password \in Passwords, tried \in Passwords, salt \in SaltInputs,
             par \in ParameterInputs :
             call = [NoCall EXCEPT !.pc = "create", !.password = password,
                       !.tried = tried, !.salt = salt,
                       !.iterations = par.iterations, !.keyLen = par.keyLen]
       \/ \E tried \in Passwords, stored \in StoredInputs :
             call = [NoCall EXCEPT !.pc = "stored", !.tried = tried,
                       !.stored = stored, !.origin = "foreign"]
       \/ \E pair \in CompareInputs :
             call = [NoCall EXCEPT !.pc = "compare", !.a = pair[1], !.b = pair[2]]

\* hashPassword(password), the salt drawn being call.salt.
HashPassword ==
    /\ call.pc = "create"
    /\ call.iterations = ITERATIONS /\ call.keyLen = KEY_LEN
    /\ call' = [call EXCEPT !.pc = "stored", !.origin = "hashPassword",
                            !.stored = hashPassword(call.password, call.salt)]
    /\ UNCHANGED <<db, tablesInitialized, clock, ticks, content, req, hist>>

\* A credential written by a version of the module with another iteration
\* count or key length.
HashPasswordEarlier ==
    /\ call.pc = "create"
    /\ call.iterations # ITERATIONS \/ call.keyLen # KEY_LEN
    /\ call' = [call EXCEPT !.pc = "stored", !.origin = "earlier",
                            !.stored = Credential(call.password, call.salt,
                                                  call.iterations, call.keyLen)]
    /\ UNCHANGED <<db, tablesInitialized, clock, ticks, content, req, hist>>

\* verifyPassword(tried, stored)
VerifyPassword ==
    /\ call.pc = "stored"
    /\ call' = [call EXCEPT !.pc = "verified",
                            !.outcome = verifyPassword(call.tried, call.stored)]
    /\ UNCHANGED <<db, tablesInitialized, clock, ticks, content, req, hist>>

\* constantTimeEqual(a, b)
ConstantTimeEqual ==
    /\ call.pc = "compare"
    /\ call' = [call EXCEPT !.pc = "compared",
                            !.compared = constantTimeEqual(call.a, call.b)]
    /\ UNCHANGED <<db, tablesInitialized, clock, ticks, content, req, hist>>

NextHash ==
    \/ HashPassword
    \/ HashPasswordEarlier
    \/ VerifyPassword
    \/ ConstantTimeEqual

SpecHash == InitHash /\ [][NextHash]_vars

TypeOK ==
    /\ tables \subseteq { TableNames[i] : i \in 1..Len(TableNames) }
    /\ tablesInitialized \in BOOLEAN
    /\ clock.sec \in Nat /\ clock.ms \in 0..(MsPerSec - 1)
    /\ ticks \in 0..MaxTicks
    /\ \A p \in Procs : req[p].status \in {0, 200, 400, 401, 404, 500}
    /\ call.outcome.threw \in BOOLEAN
    /\ call.compared.value \in BOOLEAN /\ call.compared.steps \in Nat

\* ------------------------------------------------------------ properties
\* The operations that call getUserFromSession.
AuthOps == {"me", "tweet", "like", "comment", "update"}

\* getUserFromSession of the request in slot p has ended: it has returned, or
\* it has raised and the request was answered 500.
GusEnded(p) ==
    \/ req[p].gusDone
    \/ req[p].pc = "done" /\ req[p].op \in AuthOps

\* getUserFromSession of the request in slot p has returned null.
GusNull(p) == req[p].gusDone /\ req[p].user = <<>>

\* The operations that write rows for the user of a session.
WriteOps == {"tweet", "like", "comment", "update"}

\* The request in slot p has validated its token to the user of this id: the
\* validation has returned a user, and the session issued under the token the
\* request presents names that id.
ResolvedTo(p, id) ==
    /\ req[p].op \in WriteOps
    /\ req[p].gusDone
    /\ Len(req[p].user) = 1
    /\ req[p].user[1].id = id
    /\ \E i \in issued : i.token = req[p].cookie /\ i.userId = id

\* The session store holds a row of this token.
HasRow(token) == \E s \in sessions : s.token = token

\* C1: a validation that ends while the clock is before the expiresAt of an
\* issued session whose token it presents, no logout of that token having
\* run, has returned the user the session was issued for.
C1_ValidSessionResolves ==
    \A p \in Procs : \A i \in issued :
        ( /\ GusEnded(p)
          /\ req[p].cookie = i.token
          /\ i.token \notin revoked
          /\ Seconds(clock) < i.expiresAt )
        => /\ req[p].gusDone
           /\ Len(req[p].user) = 1
           /\ req[p].user[1].id = i.userId

\* A session of the second user has validated to the second user.
C1_Witness ==
    \E p \in Procs : \E i \in issued :
        /\ req[p].gusDone
        /\ req[p].cookie = i.token
        /\ i.userId = 2
        /\ Len(req[p].user) = 1
        /\ req[p].user[1].id = 2

\* C2: a validation that read a clock of at least the expires_at of the row
\* it found has returned null and the row of its token is gone; and every
\* validation that starts once the token has expired returns null.
C2_ExpiredSessionDeleted ==
    \A p \in Procs :
        /\ ( /\ req[p].gusDone
             /\ Len(req[p].sess) = 1
             /\ req[p].now >= req[p].sess[1].expires_at )
           => GusNull(p) /\ ~HasRow(req[p].cookie)
        /\ (GusEnded(p) /\ req[p].expiredAtStart)
           => GusNull(p) /\ ~HasRow(req[p].cookie)

\* A validation at exactly now = expires_at has deleted the row and returned null.
C2_Witness ==
    \E p \in Procs :
        /\ req[p].gusDone
        /\ Len(req[p].sess) = 1
        /\ req[p].now = req[p].sess[1].expires_at
        /\ req[p].changes = 1
        /\ req[p].user = <<>>

\* C3: a validation that started after a logout of its token had completed
\* returns null.
C3_RevokedNeverValidates ==
    \A p \in Procs :
        (GusEnded(p) /\ req[p].revokedAtStart) => GusNull(p)

\* An unexpired token is validated after its logout, while another session
\* has been issued since, and the validation returns null.
C3_Witness ==
    \E p \in Procs : \E i \in issued :
        /\ req[p].gusDone
        /\ req[p].revokedAtStart
        /\ req[p].looked
        /\ req[p].cookie = i.token
        /\ Seconds(clock) < i.expiresAt
        /\ \E j \in sessions : j.id > i.id
        /\ req[p].user = <<>>

\* C7: a session row keeps its columns for as long as it exists, and a
\* validation that returns a user leaves the session store as it was.
C7_FixedExpiry ==
    [][ /\ \A s \in sessions : \A t \in sessions' : t.id = s.id => t = s
        /\ \A p \in Procs :
              (~req[p].gusDone /\ req'[p].gusDone /\ Len(req'[p].user) = 1)
              => sessions' = sessions ]_vars

\* A validation has returned the user of a session that is still stored.
C7_Witness ==
    \E p \in Procs :
        /\ req[p].gusDone
        /\ Len(req[p].user) = 1
        /\ \E s \in sessions : s.token = req[p].cookie /\ s.userId = req[p].user[1].id

\* C8: the session store holds at most one row per token, and no token was
\* ever inserted twice, so none is inserted again after its row was deleted.
C8_TokensUnique ==
    /\ \A s \in sessions : \A t \in sessions : s.token = t.token => s = t
    /\ \A i \in issued : \A j \in issued : i.token = j.token => i = j

\* A session was deleted and another one was inserted after it.
C8_Witness ==
    \E i \in issued :
        /\ i \notin sessions
        /\ \E s \in sessions : s.id > i.id

\* C10: a validation of a token that had expired when the request started
\* returns null and raises nothing, and when no other validation of the token
\* is in flight any more the row of the token is absent.
C10_ConcurrentExpiry ==
    \A p \in Procs :
        (GusEnded(p) /\ req[p].expiredAtStart)
        => /\ GusNull(p)
           /\ req[p].status # 500
           /\ (\A q \in Procs \ {p} :
                    req[q].cookie = req[p].cookie => req[q].pc \in {"idle", "done"})
              => ~HasRow(req[p].cookie)

\* Two requests found the same expired row: the second one's DELETE met no row.
C10_Witness ==
    \E p \in Procs :
        /\ req[p].gusDone
        /\ req[p].expiredAtStart
        /\ Len(req[p].sess) = 1
        /\ req[p].now >= req[p].sess[1].expires_at
        /\ req[p].changes = 0
        /\ req[p].status = 200

\* C4: a logout that presents no token, or a token that has no session row,
\* answers success and leaves the session store as it was.
C4_RevokeIdempotent ==
    [][ \A p \in Procs :
          ( /\ req[p].pc = "idle"
            /\ req'[p].op = "logout"
            /\ \A s \in sessions : s.token # req'[p].cookie )
          => /\ req'[p].status = 200
             /\ req'[p].body = "success"
             /\ sessions' = sessions ]_vars

\* C5: a validation of an absent or empty token, or of a token that matches
\* no session row, returns null and leaves the session and user stores
\* unchanged, and for the absent or empty token the store is not looked up.
C5_UnmatchedTokenNull ==
    [][ \A p \in Procs :
          ( /\ req[p].pc = "idle"
            /\ req'[p].op \in AuthOps
            /\ \A s \in sessions : s.token # req'[p].cookie )
          => /\ req'[p].gusDone
             /\ req'[p].user = <<>>
             /\ sessions' = sessions
             /\ users' = users
             /\ Falsy(req'[p].cookie) => ~req'[p].looked ]_vars

\* C6: every session row has expiresAt = createdAt + 30 days.
C6_ThirtyDays ==
    \A r \in sessions : r.expiresAt = r.createdAt + SessionSeconds

\* C9: a session row leaves the store only in a logout that presents its
\* token or in the delete of a validation of its token that read a clock of
\* at least its expiresAt; no step alters a row; rows are added only by
\* issuance, one per issuance.
C9_OnlyLogoutAndExpiryRemove ==
    [][ /\ \A s \in sessions \ sessions' : \E p \in Procs :
              \/ /\ req[p].pc = "idle"
                 /\ req'[p].op = "logout"
                 /\ req'[p].cookie = s.token
              \/ /\ req[p].pc = "gus_delete"
                 /\ req[p].cookie = s.token
                 /\ req[p].now >= s.expiresAt
                 /\ req'[p].gusDone
        /\ \A t \in sessions' \ sessions : \A s \in sessions :
              s.id # t.id /\ s.token # t.token
        /\ sessions' \ sessions = issued' \ issued
        /\ Cardinality(sessions' \ sessions) <= 1
        /\ \A p \in Procs :
              ( /\ req[p].pc # "done"
                /\ req'[p].pc = "done"
                /\ req'[p].setCookie \in TokenStrings )
              => /\ sessions \subseteq sessions'
                 /\ \E t \in sessions' \ sessions :
                       /\ t.token = req'[p].setCookie
                       /\ sessions' = sessions \cup {t} ]_vars

\* A profile update has been made under a session that is still stored, after
\* another session has left the store and the clock has advanced.
C9_Witness ==
    \E p \in Procs :
        /\ req[p].op = "update"
        /\ req[p].pc = "done"
        /\ req[p].body = "success"
        /\ HasRow(req[p].cookie)
        /\ ticks > 0
        /\ \E i \in issued : i \notin sessions

\* C11: when the user lookup of a validation finds no row for the user_id of
\* the session, the validation returns null: it returns no user, raises
\* nothing, and leaves the session store as it is.
C11_OrphanedSessionNull ==
    [][ \A p \in Procs :
          ( /\ req[p].pc = "gus_sel_user"
            /\ req'[p].pc # "gus_sel_user"
            /\ \A u \in users : u.id # req[p].sess[1].user_id )
          => /\ req'[p].gusDone
             /\ req'[p].user = <<>>
             /\ req'[p].status # 500
             /\ sessions' = sessions ]_vars

\* An unexpired session whose user row is gone has been validated: the
\* answer is null and the session row is still stored.
C11_Witness ==
    \E p \in Procs : \E s \in sessions :
        /\ req[p].op = "me"
        /\ req[p].pc = "done"
        /\ req[p].cookie = s.token
        /\ Len(req[p].sess) = 1
        /\ req[p].now < s.expiresAt
        /\ \A u \in users : u.id # s.userId
        /\ req[p].gusDone
        /\ req[p].user = <<>>
        /\ req[p].body = "null"

\* C12: a step adds a session row only as the last step of a register that
\* has inserted its user or of a login whose verifyPassword has returned
\* true, and that step answers 200 with the token of the row as cookie; a
\* register or login answered with anything but 200 has added no session row
\* with its last step and sets no cookie.
C12_SessionOnlyOnSuccess ==
    [][ /\ \A row \in sessions' \ sessions :
            \E p \in Procs :
               /\ \/ /\ req[p].op = "register"
                     /\ req[p].pc = "reg_ins_session"
                     /\ req[p].user[1].id \in 1..seq.users
                  \/ /\ req[p].op = "login"
                     /\ req[p].pc = "login_verify"
                     /\ verifyPassword(req[p].password, req[p].user[1].password)
                          = Return(TRUE)
               /\ row.userId = req[p].user[1].id
               /\ req'[p].pc = "done"
               /\ req'[p].status = 200
               /\ req'[p].setCookie = row.token
        /\ \A p \in Procs :
            ( /\ req[p].op \in {"register", "login"}
              /\ req[p].pc # "done"
              /\ req'[p].pc = "done"
              /\ req'[p].status # 200 )
            => /\ sessions' = sessions
               /\ req'[p].setCookie = Undefined ]_vars

\* A login has verified its password and has been answered 200 with the
\* token of a session row of its user, after a login with another password
\* was refused: the store holds the rows of the register and of this login.
C12_Witness ==
    \E p \in Procs : \E s \in sessions :
        /\ req[p].op = "login"
        /\ req[p].pc = "done"
        /\ req[p].status = 200
        /\ req[p].setCookie = s.token
        /\ s.userId = req[p].user[1].id
        /\ Cardinality(sessions) = 2

\* C13: a create-tweet, like, comment or update-profile request whose
\* validation returns null is answered 401 in that step and writes nothing;
\* every tweet, like and comment row written carries the id of the user the
\* writing request's session resolves to, every photo row belongs to a tweet
\* of that user, and an update changes the row of that user only.
C13_WritesCarryValidatedUser ==
    [][ /\ \A p \in Procs :
            ( /\ req'[p].op \in WriteOps
              /\ ~req[p].gusDone
              /\ req'[p].gusDone
              /\ req'[p].user = <<>> )
            => /\ req'[p].pc = "done"
               /\ req'[p].status = 401
               /\ content' = content
               /\ users' = users
        /\ \A row \in content'.tweets \ content.tweets :
            \E p \in Procs : req[p].op = "tweet" /\ ResolvedTo(p, row.user_id)
        /\ \A row \in content'.likes \ content.likes :
            \E p \in Procs : req[p].op = "like" /\ ResolvedTo(p, row.user_id)
        /\ \A row \in content'.comments \ content.comments :
            \E p \in Procs : req[p].op = "comment" /\ ResolvedTo(p, row.user_id)
        /\ \A row \in content'.photos \ content.photos :
            \E p \in Procs : \E t \in content.tweets :
                /\ req[p].op = "tweet"
                /\ t.id = row.tweet_id
                /\ ResolvedTo(p, t.user_id)
        /\ \A u \in users' \ users :
            \E p \in Procs :
                \/ req[p].op = "register"
                \/ /\ req[p].op = "update"
                   /\ ResolvedTo(p, u.id)
                   /\ \A v \in users \ users' : v.id = u.id ]_vars

\* A like answered 200 has stored a row under the id of the second user,
\* whose session the request presented.
C13_Witness ==
    \E p \in Procs : \E row \in content.likes :
        /\ req[p].op = "like"
        /\ req[p].pc = "done"
        /\ req[p].status = 200
        /\ ResolvedTo(p, row.user_id)
        /\ row.user_id = 2

\* C14: verifyPassword of a password against the string hashPassword
\* returned for that password returns true, under every salt.
C14_OwnPasswordVerifies ==
    ( /\ call.pc = "verified"
      /\ call.origin = "hashPassword"
      /\ call.tried = call.password )
    => call.outcome = Return(TRUE)

\* hashPassword under a salt of bytes below 16, then verifyPassword of the
\* same password, has returned true.
C14_Witness ==
    /\ call.pc = "verified"
    /\ call.origin = "hashPassword"
    /\ call.tried = call.password
    /\ call.salt = [i \in 1..SALT_LEN |-> i - 1]
    /\ call.stored = hashPassword(call.password, call.salt)
    /\ call.outcome = Return(TRUE)

\* C15: verifyPassword of a password against the string hashPassword
\* returned for a different password returns false and raises no error.
C15_OtherPasswordRejected ==
    ( /\ call.pc = "verified"
      /\ call.origin = "hashPassword"
      /\ call.tried # call.password )
    => call.outcome = Return(FALSE)

\* hashPassword of one password, then verifyPassword of another, has returned
\* false; the keys compared have the same length and differ.
C15_Witness ==
    /\ call.pc = "verified"
    /\ call.origin = "hashPassword"
    /\ call.password = "secret1"
    /\ call.tried = "secret2"
    /\ call.outcome = Return(FALSE)
    /\ Len(split(call.stored, ":")[2]) = 2 * KEY_LEN
    /\ PBKDF2(call.tried, call.salt, ITERATIONS, KEY_LEN * 8)
         # PBKDF2(call.password, call.salt, ITERATIONS, KEY_LEN * 8)

\* C16: when the stored credential of the user a login has found does not
\* split on ':' into exactly three parts, verifyPassword raises 'Bad hash
\* format' and the login is answered 500: not 401, no session row, no cookie.
C16_BadFormatIsInternalError ==
    [][ \A p \in Procs :
          ( /\ req[p].op = "login"
            /\ req[p].pc = "login_verify"
            /\ req'[p].pc # "login_verify"
            /\ Len(split(req[p].user[1].password, ":")) # 3 )
          => /\ verifyPassword(req[p].password, req[p].user[1].password)
                  = Raise("Bad hash format")
             /\ req'[p].pc = "done"
             /\ req'[p].status = 500
             /\ req'[p].setCookie = Undefined
             /\ sessions' = sessions ]_vars

\* A login against a stored credential of four parts has been answered 500.
C16_Witness ==
    \E p \in Procs :
        /\ req[p].op = "login"
        /\ req[p].pc = "done"
        /\ req[p].status = 500
        /\ Len(req[p].user) = 1
        /\ Len(split(req[p].user[1].password, ":")) = 4
        /\ req[p].setCookie = Undefined

\* C17: verifyPassword of any password against any stored string of exactly
\* three ':'-separated parts returns a boolean: it raises no error.
C17_ThreePartsNeverRaise ==
    ( /\ call.pc = "verified"
      /\ Len(split(call.stored, ":")) = 3 )
    => /\ ~call.outcome.threw
       /\ call.outcome.value \in BOOLEAN

\* C18: a credential created with an iteration count or a key length other
\* than ITERATIONS and KEY_LEN verifies true for its own password and false
\* for another one; the salt, the iteration count and the key length that
\* verifyPassword reads from it are those it was created with.
C18_StoredParametersUsed ==
    /\ ( call.pc = "verified" /\ call.origin = "earlier" )
       => call.outcome = Return(call.tried = call.password)
    /\ ( call.pc = "verified" /\ call.origin = "earlier" )
       => LET parts == split(call.stored, ":")
          IN /\ hex2buf(parts[1]) = Return(call.salt)
             /\ Number(parts[3]) = call.iterations
             /\ Len(parts[2]) = 2 * call.keyLen

\* A credential of 1000 iterations and one of a 16-byte key have each
\* verified; here the one this state holds has verified true.
C18_Witness ==
    /\ call.pc = "verified"
    /\ call.origin = "earlier"
    /\ call.iterations = 1000
    /\ call.keyLen = KEY_LEN
    /\ call.tried = call.password
    /\ call.outcome = Return(TRUE)

\* C19: constantTimeEqual of two strings of equal length examines every
\* position, whatever the strings hold: the number of loop steps is the
\* length, and the value returned is whether the strings are equal; for
\* strings of different lengths it returns false without a loop step.
C19_StepsDependOnLengthOnly ==
    call.pc = "compared"
    => /\ Len(call.a) = Len(call.b)
            => /\ call.compared.steps = Len(call.a)
               /\ call.compared.value = (call.a = call.b)
       /\ Len(call.a) # Len(call.b)
            => call.compared = [value |-> FALSE, steps |-> 0]

\* Two strings of eight characters that differ at the first position have
\* been compared in eight steps.
C19_Witness ==
    /\ call.pc = "compared"
    /\ Len(call.a) = 8 /\ Len(call.b) = 8
    /\ SubSeq(call.a, 1, 1) # SubSeq(call.b, 1, 1)
    /\ SubSeq(call.a, 2, 8) = SubSeq(call.b, 2, 8)
    /\ call.compared = [value |-> FALSE, steps |-> 8]

\* C20: the string hashPassword returns has exactly three ':'-separated
\* fields: 2 * SALT_LEN lowercase hex characters that hex2buf decodes to the
\* salt drawn, 2 * KEY_LEN lowercase hex characters that hex2buf decodes to
\* the KEY_LEN bytes PBKDF2 derived, and the decimal digits of ITERATIONS.
C20_CredentialFormat ==
    ( call.pc \in {"stored", "verified"} /\ call.origin = "hashPassword" )
    => LET parts == split(call.stored, ":")
           key == PBKDF2(call.password, call.salt, ITERATIONS, KEY_LEN * 8).value
       IN /\ Len(parts) = 3
          /\ Len(parts[1]) = 32
          /\ Len(parts[2]) = 64
          /\ \A i \in 1..2 : \A n \in 1..Len(parts[i]) :
                IndexOf(HexDigits, SubSeq(parts[i], n, n)) > 0
          /\ parts[3] = "100000"
          /\ Len(call.salt) = 16 /\ Len(key) = 32
          /\ hex2buf(parts[1]) = Return(call.salt)
          /\ hex2buf(parts[2]) = Return(key)

\* hashPassword has returned the credential of a salt of sixteen bytes 0: its
\* first field is thirty-two characters '0'.
C20_Witness ==
    /\ call.pc = "stored"
    /\ call.origin = "hashPassword"
    /\ call.salt = [i \in 1..SALT_LEN |-> 0]
    /\ split(call.stored, ":")[1] = "00000000000000000000000000000000"
    /\ split(call.stored, ":")[3] = "100000"
    /\ Len(call.stored) = 104

\* C21: the likes store holds at most one row for each pair of a user and a
\* tweet, whatever like requests have run.
C21_OneLikePerUserAndTweet ==
    \A a \in content.likes : \A b \in content.likes :
        (a.user_id = b.user_id /\ a.tweet_id = b.tweet_id) => a = b

\* The statements that read or write the users or sessions table, by the
\* position of the request that runs them.
StoreStatements ==
    {"reg_sel_email", "reg_sel_username", "reg_ins_user", "reg_ins_session",
     "login_sel", "gus_delete", "gus_sel_user"}

\* This step of the request in slot p runs a statement on the users or the
\* sessions table: the DELETE of logout, the SELECT of getUserFromSession or
\* of the profile, one of the statements above, the INSERT of a verified
\* login, or the UPDATE of a profile.
StoreAccess(p) ==
    \/ /\ req[p].pc = "idle"
       /\ req'[p].op = "logout"
       /\ ~Falsy(req'[p].cookie)
    \/ /\ req[p].pc = "idle"
       /\ req'[p].op = "profile"
    \/ ~req[p].looked /\ req'[p].looked
    \/ /\ req[p].pc \in StoreStatements
       /\ req'[p] # req[p]
    \/ /\ req[p].pc = "login_verify"
       /\ req'[p].pc = "done"
       /\ req'[p].body # "Invalid credentials"
       /\ LET ok == Verified(req[p].password, req[p].user[1].password)
          IN ~ok.threw
    \/ /\ req[p].pc = "authed"
       /\ req[p].op = "update"
       /\ req'[p].pc = "done"
       /\ req'[p].body # "user"

\* C22: every statement an endpoint runs on the users or the sessions table
\* runs when schema initialisation has completed in the process, that is,
\* with tablesInitialized set.
C22_StoreAccessAfterInit ==
    [][\A p \in Procs : StoreAccess(p) => tablesInitialized]_vars

\* This step of the request in slot p runs the j-th statement of ensureSchema.
RunsStatement(p, j) ==
    /\ req[p].pc = "schema"
    /\ req[p].k = j - 1
    /\ req'[p] # req[p]

\* C23: each table-creation statement runs at most once in a process, also
\* when several requests are in ensureSchema at once: a step that runs a
\* statement finds that no earlier step has run it, that is, its table does
\* not exist yet.
C23_StatementsRunOnce ==
    [][\A p \in Procs : \A j \in 1..Len(TableNames) :
          RunsStatement(p, j) => TableNames[j] \notin tables]_vars

\* No two user rows share an email and no two share a username.
UniqueUsers ==
    \A u \in users : \A v \in users :
        (u.email = v.email \/ u.username = v.username) => u = v

\* This step of the request in slot p is the INSERT INTO users of a
\* registration whose email or username another row holds by now.
LosesRace(p) ==
    /\ req[p].pc = "reg_ins_user"
    /\ req'[p] # req[p]
    /\ \E u \in users : u.email = req[p].email \/ u.username = req[p].username

\* C24: no two user rows share an email or a username, however register and
\* profile-update requests interleave; a registration whose insert meets a
\* row of its email or username adds no user row and no session row and is
\* over.
C24_UniqueEmailAndUsername ==
    /\ []UniqueUsers
    /\ [][\A p \in Procs :
            LosesRace(p) => /\ users' = users
                            /\ sessions' = sessions
                            /\ req'[p].pc = "done"
                            /\ req'[p].status = 500]_vars

\* Two registrations of one email or username have passed their SELECTs; one has
\* inserted its row, the other has been answered with an error, and there is
\* one user row and no session row of the loser.
C24_Witness ==
    /\ req[1].op = "register" /\ req[1].pc = "reg_ins_session"
    /\ req[2].op = "register" /\ req[2].pc = "done" /\ req[2].status = 500
    /\ tablesInitialized
    /\ Cardinality(users) = 1
    /\ sessions = {}

\* Every session row names the id of a user row.
SessionsHaveUsers ==
    \A s \in sessions : \E u \in users : u.id = s.userId

\* C25: every session row's userId is the id of an existing user row; no
\* step removes a user id from the users table; and the user lookup of a
\* validation that found an unexpired session finds the user, so it never
\* returns null for want of a user row.
C25_SessionsNameExistingUsers ==
    /\ []SessionsHaveUsers
    /\ [][ /\ \A u \in users : \E v \in users' : v.id = u.id
           /\ \A p \in Procs :
                ( /\ req[p].pc = "gus_sel_user"
                  /\ req'[p] # req[p] )
                => /\ \E u \in users : u.id = req[p].sess[1].user_id
                   /\ req'[p].gusDone
                   /\ Len(req'[p].user) = 1
                   /\ req'[p].user[1].id = req[p].sess[1].user_id ]_vars

\* A profile update has rewritten a user row, and a later validation of that
\* user's unexpired session has found the row and returned the user.
C25_Witness ==
    \E p \in Procs : \E s \in sessions :
        /\ req[p].op = "me"
        /\ req[p].pc = "done"
        /\ req[p].cookie = s.token
        /\ req[p].now < s.expiresAt
        /\ req[p].gusDone
        /\ Len(req[p].user) = 1
        /\ req[p].user[1].id = s.userId
        /\ req[p].user[1].description = "hi"

\* The urls of the photo rows of a tweet, in the order of their insertion.
StoredImages(tweetId) ==
    LET rows == RowsInOrder({ ph \in content.photos : ph.tweet_id = tweetId })
    IN [i \in 1..Len(rows) |-> rows[i].url]

\* C26: no tweet has more than four photo rows; when a create-tweet request
\* has been answered, the photo rows of its tweet are the first four images
\* of the request, in request order, and the images the answer reports are
\* those stored.
C26_PhotosStoredAndReported ==
    /\ \A t \in content.tweets :
          Cardinality({ ph \in content.photos : ph.tweet_id = t.id }) <= MaxImages
    /\ \A p \in Procs :
          (req[p].op = "tweet" /\ req[p].pc = "done" /\ req[p].status = 200)
          => /\ StoredImages(req[p].tweetId)
                  = Slice(OrEmpty(req[p].images), 0, MaxImages)
             /\ req[p].reported = StoredImages(req[p].tweetId)

====
